---- MODULE Spec2Model ----
(***************************************************************************)
(* The journal API of src/main.py: POST /analyze-entry resolves the caller *)
(* (src/auth.py), asks the LLM for an analysis, stores one JournalEntry    *)
(* row (src/models.py) through a per-request session (src/database.py)     *)
(* and returns the analysis.                                               *)
(*                                                                         *)
(* Optional values (Python None) are sets: {} is None, {x} is the value x. *)
(* Strings of the request body are sequences of one-character strings.     *)
(***************************************************************************)
EXTENDS Integers, Sequences, FiniteSets, TLC

\* ---------------------------------------------------------------- bounds
MaxLen == 3          \* longest entry text a client sends
MaxRequests == 1     \* requests received in one behaviour of Spec
MaxRepeats == 2      \* times a client sends one request in SpecRepeat
MaxConcurrent == 2   \* requests received in one behaviour of SpecConcurrent

\* ------------------------------------------------------- input alphabets
Whitespace == {" ", "\t", "\n"}
Chars == {"a", " "}
Texts == UNION {[1..n -> Chars] : n \in 0..MaxLen}

EntryStatus == {"draft", "published", "archived"}

\* User rows present when the service starts, and the ids a client may put
\* in the X-User-Id header (one of them matches no row).
UserRows == {[user_id |-> 1, email |-> "u1"], [user_id |-> 2, email |-> "u2"]}
HeaderValues == {{}} \cup {{i} : i \in 1..3}

\* Raw completions of the model: the text it returns, seen through what
\* the output parser reads from it.
LLMOutputs ==
    { [format |-> "json", scoreType |-> "int", sentimentScore |-> 10, counsel |-> "advice"],
      [format |-> "json", scoreType |-> "int", sentimentScore |-> 11, counsel |-> ""],
      [format |-> "json", scoreType |-> "str", sentimentScore |-> 0,  counsel |-> "advice"],
      [format |-> "prose", scoreType |-> "int", sentimentScore |-> 0, counsel |-> "advice"] }

Today == "today"

VARIABLES
    users,        \* table user
    journal,      \* table journal_entry: the committed rows
    seq,          \* last value of the journal_entry_id sequence
    nreq,         \* requests received so far
    sent,         \* the request a repeating client sent last ({} if none)
    pc,           \* per worker: where its request stands
    req,          \* per worker: the request (header and body)
    sess,         \* per worker: the Session of get_session
    pending,      \* per worker: objects added to the session, not flushed
    current_user, \* per worker: result of get_current_user
    lookups,      \* per worker: User lookups issued for the request
    llmCalls,     \* per worker: llm.invoke calls made for the request
    output,       \* per worker: what llm.invoke returned ({} if it raised)
    analysis_result, \* per worker: the parsed SimplifiedAnalysis
    db_journal_entry, \* per worker: the JournalEntry object of the handler
    resp,         \* per worker: the HTTP response
    rowsBefore    \* per worker: journal as it was when the request arrived

vars == <<users, journal, seq, nreq, sent, pc, req, sess, pending, current_user,
          lookups, llmCalls, output, analysis_result, db_journal_entry, resp,
          rowsBefore>>

\* the request handler runs on one worker of the server at a time
Workers == {1}

\* ------------------------------------------------------------ pure parts

IsSpace(c) == c \in Whitespace

\* str.split() with no argument: runs of whitespace separate the tokens,
\* leading and trailing whitespace yields no empty token.
RECURSIVE SkipSpace(_, _)
SkipSpace(s, i) ==
    IF i > Len(s) THEN i
    ELSE IF IsSpace(s[i]) THEN SkipSpace(s, i + 1) ELSE i

RECURSIVE TokenEnd(_, _)
TokenEnd(s, i) ==
    IF i > Len(s) THEN i
    ELSE IF IsSpace(s[i]) THEN i ELSE TokenEnd(s, i + 1)

RECURSIVE SplitFrom(_, _)
SplitFrom(s, i) ==
    LET j == SkipSpace(s, i) IN
    IF j > Len(s) THEN << >>
    ELSE LET k == TokenEnd(s, j) IN << SubSeq(s, j, k - 1) >> \o SplitFrom(s, k)

\* a plausible slip: text.split(" "), which cuts at every single blank
RECURSIVE SplitAtBlank(_, _)
SplitAtBlank(s, i) ==
    LET k == TokenEnd(s, i) IN
    IF k > Len(s) THEN << SubSeq(s, i, Len(s)) >>
    ELSE << SubSeq(s, i, k - 1) >> \o SplitAtBlank(s, k + 1)

split_at_blank(s) == SplitAtBlank(s, 1)

split(s) == SplitFrom(s, 1)

\* parser.parse: the completion must be JSON matching SimplifiedAnalysis
\* (sentimentScore: int, counsel: str); anything else raises.
\* A slip that takes the fields of whatever came back:
parse_unchecked(o) ==
    {[sentimentScore |-> o.sentimentScore, counsel |-> o.counsel]}

parse(o) ==
    IF o.format = "json" /\ o.scoreType = "int"
    THEN {[sentimentScore |-> o.sentimentScore, counsel |-> o.counsel]}
    ELSE {}

\* session.get(User, x_user_id): the row with that primary key, or None.
\* A slip that selects the first User row, whatever the id:
session_get_any(tbl, id) == {CHOOSE u \in tbl : TRUE}

session_get(tbl, id) == {u \in tbl : u.user_id = id}

\* the autoincrement primary key of journal_entry.
\* A slip that hands out the current key again:
nextval_stuck(s) == IF s = 0 THEN 1 ELSE s

nextval(s) == s + 1

HTTPException(code, detail) == {[status_code |-> code, detail |-> detail, body |-> {}]}

Ok200(a) == {[status_code |-> 200, detail |-> "", body |-> a]}

\* JournalEntry(...) as the handler builds it
NewEntry(user, r, a) ==
    [ journal_entry_id |-> {},
      user_id          |-> user.user_id,
      entry_date       |-> Today,
      text             |-> r.text,
      sentiment_score  |-> a.sentimentScore,
      entry_status     |-> r.entry_status,
      word_count       |-> Len(split(r.text)),
      ai_suggestion    |-> a.counsel ]

\* the row an INSERT of the object writes, with the key the sequence gave
RowOf(e, id) == [e EXCEPT !.journal_entry_id = id]

\* the object as loaded from a row
ObjectOf(row) == [row EXCEPT !.journal_entry_id = {row.journal_entry_id}]

\* ----------------------------------------------------------------- Init

InitFor(W) ==
    /\ users = UserRows
    /\ journal = {}
    /\ seq = 0
    /\ nreq = 0
    /\ sent = {}
    /\ pc = [w \in W |-> "idle"]
    /\ req = [w \in W |-> [x_user_id |-> {}, text |-> << >>, entry_status |-> "published"]]
    /\ sess = [w \in W |-> "none"]
    /\ pending = [w \in W |-> {}]
    /\ current_user = [w \in W |-> {}]
    /\ lookups = [w \in W |-> 0]
    /\ llmCalls = [w \in W |-> 0]
    /\ output = [w \in W |-> {}]
    /\ analysis_result = [w \in W |-> {}]
    /\ db_journal_entry = [w \in W |-> {}]
    /\ resp = [w \in W |-> {}]
    /\ rowsBefore = [w \in W |-> {}]

Init == InitFor(Workers)

\* -------------------------------------------------------------- actions

NoRequest == [x_user_id |-> {}, text |-> << >>, entry_status |-> "published"]

\* the requests a client can send: the header, and a body that validates as
\* EntryCreateRequest (entry_status is published when the body omits it)
Requests == [x_user_id : HeaderValues, text : Texts, entry_status : EntryStatus]

\* A request of R arrives at a free worker. Dependency resolution starts
\* with get_session: `with Session(engine) as session: yield session`.
Arrive(w, R) ==
    /\ pc[w] = "idle"
    /\ \E r \in R : req' = [req EXCEPT ![w] = r]
    /\ nreq' = nreq + 1
    /\ sess' = [sess EXCEPT ![w] = "open"]
    /\ rowsBefore' = [rowsBefore EXCEPT ![w] = journal]
    /\ pc' = [pc EXCEPT ![w] = "auth"]
    /\ UNCHANGED <<users, journal, seq, pending, current_user, lookups, llmCalls,
                   output, analysis_result, db_journal_entry, resp>>

\* any client, any request
ReceiveRequest(w) ==
    /\ nreq < MaxRequests
    /\ Arrive(w, Requests)
    /\ UNCHANGED sent

\* a client that sends a request and then the very same request again
ResendRequest(w) ==
    /\ nreq < MaxRepeats
    /\ Arrive(w, IF sent = {} THEN Requests ELSE sent)
    /\ sent' = {req'[w]}

\* an exception leaves the handler: the response is the error, and what is
\* left of the request is the exit of get_session
Raise(w, code, detail) ==
    /\ resp' = [resp EXCEPT ![w] = HTTPException(code, detail)]
    /\ pc' = [pc EXCEPT ![w] = "teardown"]

\* the body of get_current_user: what it raises or returns, and the User
\* lookups it issues on the way. A slip that looks the user up before it
\* tests the header for None:
authenticate_lookup_first(h, tbl) ==
    LET user == UNION {session_get(tbl, id) : id \in h} IN
    IF h = {} THEN [lookups |-> 1, user |-> {}, error |-> HTTPException(401, "no_header")]
    ELSE IF user = {}
         THEN [lookups |-> 1, user |-> {}, error |-> HTTPException(404, "user_not_found")]
         ELSE [lookups |-> 1, user |-> user, error |-> {}]

authenticate(h, tbl) ==
    IF h = {}
    THEN [lookups |-> 0, user |-> {}, error |-> HTTPException(401, "no_header")]
    ELSE LET user == session_get(tbl, CHOOSE id \in h : TRUE) IN
         IF user = {}
         THEN [lookups |-> 1, user |-> {}, error |-> HTTPException(404, "user_not_found")]
         ELSE [lookups |-> 1, user |-> user, error |-> {}]

get_current_user(w) ==
    /\ pc[w] = "auth"
    /\ LET a == authenticate(req[w].x_user_id, users) IN
       /\ lookups' = [lookups EXCEPT ![w] = @ + a.lookups]
       /\ current_user' = [current_user EXCEPT ![w] = a.user]
       /\ resp' = [resp EXCEPT ![w] = a.error]
       /\ pc' = [pc EXCEPT ![w] = IF a.error = {} THEN "handler" ELSE "teardown"]
    /\ UNCHANGED <<users, sent, journal, seq, nreq, req, sess, pending, llmCalls, output,
                   analysis_result, db_journal_entry, rowsBefore>>

\* `if not entry_data.text: raise HTTPException(400)`.
\* A slip that tests `entry_data.text is None`, which no body satisfies:
CheckText_is_none(w) ==
    /\ pc[w] = "handler"
    /\ pc' = [pc EXCEPT ![w] = "llm"]
    /\ UNCHANGED <<users, sent, journal, seq, nreq, req, sess, pending, current_user,
                   lookups, llmCalls, output, analysis_result, db_journal_entry,
                   resp, rowsBefore>>

CheckText(w) ==
    /\ pc[w] = "handler"
    /\ IF Len(req[w].text) = 0
       THEN Raise(w, 400, "empty_text")
       ELSE /\ pc' = [pc EXCEPT ![w] = "llm"]
            /\ UNCHANGED resp
    /\ UNCHANGED <<users, sent, journal, seq, nreq, req, sess, pending, current_user,
                   lookups, llmCalls, output, analysis_result, db_journal_entry,
                   rowsBefore>>

\* `output = llm.invoke(final_prompt); analysis_result = parser.parse(...)`
\* inside one try: the call may raise, and so may the parser.
\* A slip that calls the model again when the call raised:
InvokeLLM_retry(w) ==
    /\ pc[w] = "llm"
    /\ llmCalls' = [llmCalls EXCEPT ![w] = @ + 1]
    /\ \/ /\ llmCalls[w] < 2
          /\ UNCHANGED <<output, analysis_result, resp, pc>>
       \/ \E o \in LLMOutputs :
            LET a == parse(o) IN
            /\ output' = [output EXCEPT ![w] = {o}]
            /\ IF a = {}
               THEN /\ Raise(w, 500, "ai_failed")
                    /\ UNCHANGED analysis_result
               ELSE /\ analysis_result' = [analysis_result EXCEPT ![w] = a]
                    /\ pc' = [pc EXCEPT ![w] = "persist"]
                    /\ UNCHANGED resp
    /\ UNCHANGED <<users, sent, journal, seq, nreq, req, sess, pending, current_user,
                   lookups, db_journal_entry, rowsBefore>>

InvokeLLM(w) ==
    /\ pc[w] = "llm"
    /\ llmCalls' = [llmCalls EXCEPT ![w] = @ + 1]
    /\ \/ /\ Raise(w, 500, "ai_failed")
          /\ UNCHANGED <<output, analysis_result>>
       \/ \E o \in LLMOutputs :
            LET a == parse(o) IN
            /\ output' = [output EXCEPT ![w] = {o}]
            /\ IF a = {}
               THEN /\ Raise(w, 500, "ai_failed")
                    /\ UNCHANGED analysis_result
               ELSE /\ analysis_result' = [analysis_result EXCEPT ![w] = a]
                    /\ pc' = [pc EXCEPT ![w] = "persist"]
                    /\ UNCHANGED resp
    /\ UNCHANGED <<users, sent, journal, seq, nreq, req, sess, pending, current_user,
                   lookups, db_journal_entry, rowsBefore>>

\* `db_journal_entry = JournalEntry(...); session.add(db_journal_entry)`
AddEntry(w) ==
    /\ pc[w] = "persist"
    /\ \/ LET user == CHOOSE u \in current_user[w] : TRUE
              a == CHOOSE x \in analysis_result[w] : TRUE
              e == NewEntry(user, req[w], a)
          IN /\ db_journal_entry' = [db_journal_entry EXCEPT ![w] = {e}]
             /\ pending' = [pending EXCEPT ![w] = {e}]
             /\ pc' = [pc EXCEPT ![w] = "commit"]
       \/ /\ pc' = [pc EXCEPT ![w] = "rollback"]
          /\ UNCHANGED <<db_journal_entry, pending>>
    /\ UNCHANGED <<users, sent, journal, seq, nreq, req, sess, current_user, lookups,
                   llmCalls, output, analysis_result, resp, rowsBefore>>

\* A slip that keeps one entry per user and day: session.merge() on
\* (user_id, entry_date), which overwrites the row the user already has.
Commit_upsert(w) ==
    /\ pc[w] = "commit"
    /\ \/ LET e == CHOOSE x \in pending[w] : TRUE
              id == nextval(seq)
              old == {r \in journal : r.user_id = e.user_id /\ r.entry_date = e.entry_date}
          IN /\ journal' = (journal \ old) \cup {RowOf(e, id)}
             /\ seq' = id
             /\ db_journal_entry' = [db_journal_entry EXCEPT ![w] = {ObjectOf(RowOf(e, id))}]
             /\ pending' = [pending EXCEPT ![w] = {}]
             /\ pc' = [pc EXCEPT ![w] = "refresh"]
       \/ /\ \E spent \in BOOLEAN : seq' = IF spent THEN nextval(seq) ELSE seq
          /\ pc' = [pc EXCEPT ![w] = "rollback"]
          /\ UNCHANGED <<journal, db_journal_entry, pending>>
    /\ UNCHANGED <<users, sent, nreq, req, sess, current_user, lookups, llmCalls, output,
                   analysis_result, resp, rowsBefore>>

\* `session.commit()`: flush the INSERT (the sequence gives the key) and
\* commit. A failure leaves no row; the sequence value may be spent.
Commit(w) ==
    /\ pc[w] = "commit"
    /\ \/ LET e == CHOOSE x \in pending[w] : TRUE
              id == nextval(seq)
          IN /\ journal' = journal \cup {RowOf(e, id)}
             /\ seq' = id
             /\ db_journal_entry' = [db_journal_entry EXCEPT ![w] = {ObjectOf(RowOf(e, id))}]
             /\ pending' = [pending EXCEPT ![w] = {}]
             /\ pc' = [pc EXCEPT ![w] = "refresh"]
       \/ /\ \E spent \in BOOLEAN : seq' = IF spent THEN nextval(seq) ELSE seq
          /\ pc' = [pc EXCEPT ![w] = "rollback"]
          /\ UNCHANGED <<journal, db_journal_entry, pending>>
    /\ UNCHANGED <<users, sent, nreq, req, sess, current_user, lookups, llmCalls, output,
                   analysis_result, resp, rowsBefore>>

\* `session.refresh(db_journal_entry)`: reload the object from its row
Refresh(w) ==
    /\ pc[w] = "refresh"
    /\ \/ LET e == CHOOSE x \in db_journal_entry[w] : TRUE
              rows == {r \in journal : {r.journal_entry_id} = e.journal_entry_id}
          IN /\ rows # {}
             /\ db_journal_entry' = [db_journal_entry EXCEPT ![w] = {ObjectOf(CHOOSE r \in rows : TRUE)}]
             /\ pc' = [pc EXCEPT ![w] = "return"]
       \/ /\ pc' = [pc EXCEPT ![w] = "rollback"]
          /\ UNCHANGED db_journal_entry
    /\ UNCHANGED <<users, sent, journal, seq, nreq, req, sess, pending, current_user,
                   lookups, llmCalls, output, analysis_result, resp, rowsBefore>>

\* `except Exception: session.rollback(); raise HTTPException(500)`:
\* rollback discards what the open transaction holds, nothing committed.
Rollback(w) ==
    /\ pc[w] = "rollback"
    /\ pending' = [pending EXCEPT ![w] = {}]
    /\ Raise(w, 500, "db_failed")
    /\ UNCHANGED <<users, sent, journal, seq, nreq, req, sess, current_user, lookups,
                   llmCalls, output, analysis_result, db_journal_entry, rowsBefore>>

\* `return analysis_result`
Return(w) ==
    /\ pc[w] = "return"
    /\ resp' = [resp EXCEPT ![w] = Ok200(analysis_result[w])]
    /\ pc' = [pc EXCEPT ![w] = "teardown"]
    /\ UNCHANGED <<users, sent, journal, seq, nreq, req, sess, pending, current_user,
                   lookups, llmCalls, output, analysis_result, db_journal_entry,
                   rowsBefore>>

\* The `with` block of get_session ends: the session is closed.
\* A slip that closes the session after the yield without with/finally, so
\* that an exception thrown into the generator skips the close:
get_session_exit_no_finally(w) ==
    /\ pc[w] = "teardown"
    /\ sess' = [sess EXCEPT ![w] =
                   IF \E r \in resp[w] : r.status_code = 200 THEN "closed" ELSE @]
    /\ pending' = [pending EXCEPT ![w] = {}]
    /\ pc' = [pc EXCEPT ![w] = "done"]
    /\ UNCHANGED <<users, sent, journal, seq, nreq, req, current_user, lookups, llmCalls,
                   output, analysis_result, db_journal_entry, resp, rowsBefore>>

get_session_exit(w) ==
    /\ pc[w] = "teardown"
    /\ sess' = [sess EXCEPT ![w] = "closed"]
    /\ pending' = [pending EXCEPT ![w] = {}]
    /\ pc' = [pc EXCEPT ![w] = "done"]
    /\ UNCHANGED <<users, sent, journal, seq, nreq, req, current_user, lookups, llmCalls,
                   output, analysis_result, db_journal_entry, resp, rowsBefore>>

\* The response (response_model=SimplifiedAnalysis, or the error) goes out
\* and the worker is free again; the request's locals are gone.
SendResponse(w) ==
    /\ pc[w] = "done"
    /\ pc' = [pc EXCEPT ![w] = "idle"]
    /\ req' = [req EXCEPT ![w] = NoRequest]
    /\ current_user' = [current_user EXCEPT ![w] = {}]
    /\ lookups' = [lookups EXCEPT ![w] = 0]
    /\ llmCalls' = [llmCalls EXCEPT ![w] = 0]
    /\ output' = [output EXCEPT ![w] = {}]
    /\ analysis_result' = [analysis_result EXCEPT ![w] = {}]
    /\ db_journal_entry' = [db_journal_entry EXCEPT ![w] = {}]
    /\ resp' = [resp EXCEPT ![w] = {}]
    /\ rowsBefore' = [rowsBefore EXCEPT ![w] = {}]
    /\ UNCHANGED <<users, sent, journal, seq, nreq, sess, pending>>

\* the steps of a request once it has arrived
Handle(w) ==
    \/ get_current_user(w)
    \/ CheckText(w)
    \/ InvokeLLM(w)
    \/ AddEntry(w)
    \/ Commit(w)
    \/ Refresh(w)
    \/ Rollback(w)
    \/ Return(w)
    \/ get_session_exit(w)
    \/ SendResponse(w)

Next == \E w \in Workers : ReceiveRequest(w) \/ Handle(w)

Spec == Init /\ [][Next]_vars

NextRepeat == \E w \in Workers : ResendRequest(w) \/ Handle(w)

SpecRepeat == Init /\ [][NextRepeat]_vars

\* Two workers of the server's thread pool: the handler is a plain `def`,
\* so requests run side by side, each with the session of its own
\* get_session, and meet only in the database.
ConcurrentWorkers == {1, 2}

\* what the clients send while two requests are in flight: every header,
\* an empty, a one-word and a two-word text
ConcurrentRequests ==
    [x_user_id : HeaderValues,
     text : {<< >>, <<"a">>, <<"a", " ", "a">>},
     entry_status : {"published"}]

InitConcurrent == InitFor(ConcurrentWorkers)

ReceiveConcurrent(w) ==
    /\ nreq < MaxConcurrent
    /\ Arrive(w, ConcurrentRequests)
    /\ UNCHANGED sent

NextConcurrent == \E w \in ConcurrentWorkers : ReceiveConcurrent(w) \/ Handle(w)

SpecConcurrent == InitConcurrent /\ [][NextConcurrent]_vars

\* --------------------------------------------------------------- claims

Responded(w) == resp[w] # {}
StatusCode(w) == (CHOOSE r \in resp[w] : TRUE).status_code
Detail(w) == (CHOOSE r \in resp[w] : TRUE).detail
Body(w) == (CHOOSE r \in resp[w] : TRUE).body

\* rows that exist now and did not when the request of w arrived
NewRows(w) == journal \ rowsBefore[w]

\* the header names an existing User row
HeaderMatches(w) == \E u \in users : {u.user_id} = req[w].x_user_id

\* whitespace-separated tokens of a text: the positions where a token starts
TokenCount(s) ==
    Cardinality({i \in 1..Len(s) :
                    /\ s[i] \notin Whitespace
                    /\ (i = 1 \/ s[i - 1] \in Whitespace)})

\* C1: a request with non-empty text that returns 200 leaves exactly one
\* new JournalEntry row compared to before the request; the row belongs to
\* the user the header names and its word_count is the number of
\* whitespace-separated tokens of the text.
C1_OneRowPerSuccess ==
    \A w \in Workers :
        (Responded(w) /\ StatusCode(w) = 200 /\ Len(req[w].text) > 0) =>
            /\ rowsBefore[w] \subseteq journal
            /\ \E r \in journal :
                  /\ NewRows(w) = {r}
                  /\ {r.user_id} = req[w].x_user_id
                  /\ r.word_count = TokenCount(req[w].text)

C1_Witness ==
    \E w \in Workers :
        /\ pc[w] = "done" /\ Responded(w) /\ StatusCode(w) = 200
        /\ rowsBefore[w] # {}
        /\ \E r \in NewRows(w) : r.word_count = 2 /\ r.user_id = 2

\* C2: when a step of the persistence block raises, the response is the
\* 500 persistence failure without the analysis, and the committed
\* JournalEntry rows are those from before the request.
C2_PersistenceFailureLeavesNoRow ==
    \A w \in Workers :
        (Responded(w) /\ Detail(w) = "db_failed") =>
            /\ StatusCode(w) = 500
            /\ Body(w) = {}
            /\ journal = rowsBefore[w]

\* the completion llm.invoke returned cannot be parsed, or it raised
BadOutput(w) ==
    \/ output[w] = {}
    \/ \E o \in output[w] : o.format # "json" \/ o.scoreType # "int"

\* C3: once the LLM call or the parsing of its output has failed, the
\* request has ended with the 500 upstream failure, it never reached the
\* persistence block and it created no JournalEntry row.
C3_UpstreamFailureCreatesNoRow ==
    \A w \in Workers :
        (llmCalls[w] > 0 /\ BadOutput(w)) =>
            /\ resp[w] = HTTPException(500, "ai_failed")
            /\ pc[w] \in {"teardown", "done"}
            /\ db_journal_entry[w] = {} /\ pending[w] = {}
            /\ journal = rowsBefore[w]

C3_Witness ==
    \E w \in Workers :
        /\ pc[w] = "done" /\ llmCalls[w] = 1
        /\ \E o \in output[w] : o.scoreType = "str"
        /\ resp[w] = HTTPException(500, "ai_failed")
        /\ rowsBefore[w] # {} /\ journal = rowsBefore[w]

\* C4 as stated: every request whose text is "" ends with 400 and creates
\* no row, whatever the identity header is.
C4_EmptyTextAlways400 ==
    \A w \in Workers :
        (pc[w] = "done" /\ Len(req[w].text) = 0) =>
            /\ StatusCode(w) = 400
            /\ journal = rowsBefore[w]

\* C4 as amended: a request whose text is "" never gets past the text
\* check and creates no row; it ends with 400 when its header names an
\* existing user, with 401 when the header is missing and with 404 when
\* the header names no user, since the caller is resolved first.
C4_EmptyTextRejected ==
    \A w \in Workers :
        (pc[w] # "idle" /\ Len(req[w].text) = 0) =>
            /\ pc[w] \in {"auth", "handler", "teardown", "done"}
            /\ llmCalls[w] = 0
            /\ journal = rowsBefore[w]
            /\ Responded(w) =>
                  StatusCode(w) = IF req[w].x_user_id = {} THEN 401
                                  ELSE IF HeaderMatches(w) THEN 400 ELSE 404

C4_Witness ==
    \E w \in Workers :
        /\ pc[w] = "done" /\ Len(req[w].text) = 0
        /\ HeaderMatches(w)
        /\ resp[w] = HTTPException(400, "empty_text")
        /\ journal = rowsBefore[w]

\* C5: a request without the X-User-Id header ends with 401, and no User
\* lookup is issued for it.
C5_NoHeaderUnauthenticated ==
    \A w \in Workers :
        (pc[w] # "idle" /\ req[w].x_user_id = {}) =>
            /\ lookups[w] = 0
            /\ pc[w] \in {"auth", "teardown", "done"}
            /\ Responded(w) => resp[w] = HTTPException(401, "no_header")
            /\ pc[w] # "auth" => Responded(w)

C5_Witness ==
    \E w \in Workers :
        /\ pc[w] = "done" /\ req[w].x_user_id = {}
        /\ Len(req[w].text) > 0
        /\ resp[w] = HTTPException(401, "no_header") /\ lookups[w] = 0

\* C6: a request whose X-User-Id header is present and matches no User
\* row ends with 404 and creates no JournalEntry row.
C6_UnknownUserNotFound ==
    \A w \in Workers :
        (pc[w] # "idle" /\ req[w].x_user_id # {} /\ ~HeaderMatches(w)) =>
            /\ pc[w] \in {"auth", "teardown", "done"}
            /\ Responded(w) => resp[w] = HTTPException(404, "user_not_found")
            /\ pc[w] # "auth" => Responded(w)
            /\ journal = rowsBefore[w]

C6_Witness ==
    \E w \in Workers :
        /\ pc[w] = "done" /\ req[w].x_user_id = {3}
        /\ resp[w] = HTTPException(404, "user_not_found")
        /\ lookups[w] = 1
        /\ journal = rowsBefore[w]

\* C7: no request ends with its session still open: when the request is
\* over, on whichever path (200, 400, 401, 404, either 500), the session
\* get_session opened for it is closed, and it is open until then.
C7_SessionClosedAtEnd ==
    \A w \in Workers :
        /\ pc[w] = "done" => (Responded(w) /\ sess[w] = "closed")
        /\ pc[w] = "idle" => sess[w] # "open"
        /\ pc[w] \notin {"idle", "done"} => sess[w] = "open"

C7_Witness ==
    \E w \in Workers :
        /\ pc[w] = "done" /\ sess[w] = "closed" /\ nreq = 2
        /\ resp[w] = HTTPException(500, "db_failed")
        /\ NewRows(w) # {}

\* C8: a successful call never reuses or overwrites a row of an earlier
\* call: its row has a journal_entry_id no earlier row has, every earlier
\* row is still there unchanged, and no two rows share an id, so k equal
\* successful calls leave k rows.
C8_DistinctRows ==
    /\ \A r1, r2 \in journal : r1.journal_entry_id = r2.journal_entry_id => r1 = r2
    /\ \A w \in Workers :
        (Responded(w) /\ StatusCode(w) = 200) =>
            /\ rowsBefore[w] \subseteq journal
            /\ Cardinality(journal) = Cardinality(rowsBefore[w]) + 1
            /\ \E e \in db_journal_entry[w] :
                  /\ \E r \in journal : {r.journal_entry_id} = e.journal_entry_id
                  /\ \A r \in rowsBefore[w] : {r.journal_entry_id} # e.journal_entry_id

C8_Witness ==
    \E w \in Workers :
        /\ pc[w] = "done" /\ StatusCode(w) = 200
        /\ \E r1, r2 \in journal :
              /\ r1.journal_entry_id # r2.journal_entry_id
              /\ [r1 EXCEPT !.journal_entry_id = 0] = [r2 EXCEPT !.journal_entry_id = 0]

\* C9: whenever the handler returns 200, the returned sentimentScore is in
\* [-10, 10] and counsel is not empty, and every persisted row has its
\* sentiment_score in [-10, 10].
C9_ScoreInRange ==
    /\ \A w \in Workers :
        (Responded(w) /\ StatusCode(w) = 200) =>
            \A a \in Body(w) : a.sentimentScore \in -10..10 /\ a.counsel # ""
    /\ \A r \in journal : r.sentiment_score \in -10..10

\* C10: within one request the LLM is invoked at most once, only after
\* the caller was resolved to a User and the text was found non-empty; a
\* request that ends with 400, 401 or 404 never invoked it.
C10_LLMOnceAfterChecks ==
    \A w \in Workers :
        /\ llmCalls[w] <= 1
        /\ llmCalls[w] > 0 =>
              /\ current_user[w] # {} /\ HeaderMatches(w)
              /\ Len(req[w].text) > 0
        /\ (Responded(w) /\ StatusCode(w) \in {400, 401, 404}) => llmCalls[w] = 0
        /\ pc[w] \in {"persist", "commit", "refresh", "rollback", "return"} => llmCalls[w] = 1

C10_Witness ==
    \E w \in Workers :
        /\ pc[w] = "done" /\ llmCalls[w] = 1 /\ output[w] = {}
        /\ resp[w] = HTTPException(500, "ai_failed")

\* the workers whose request is under way, whichever specification runs
Serving == DOMAIN pc

\* the step inserts the row of the request of w: the object its session
\* holds, under a key no committed row has, for the user and with the text
\* of that request
InsertsOwnRow(w) ==
    /\ pc[w] = "commit" /\ pc'[w] = "refresh"
    /\ \E r \in journal' :
          /\ journal' = journal \cup {r}
          /\ \A old \in journal : old.journal_entry_id # r.journal_entry_id
          /\ {r.user_id} = req[w].x_user_id
          /\ r.text = req[w].text
          /\ pending[w] = {[ObjectOf(r) EXCEPT !.journal_entry_id = {}]}

\* C11: under every interleaving of concurrent requests no step updates or
\* deletes a committed row: the User rows never change, every committed
\* JournalEntry row stays as it is, and the journal changes only by a
\* request inserting its own row; a request that fails or rolls back
\* changes no row at all.
C11_OnlyOwnInserts ==
    [][ /\ users' = users
        /\ journal \subseteq journal'
        /\ journal' # journal => \E w \in Serving : InsertsOwnRow(w)
        /\ \A w \in Serving :
              ((pc[w] # "rollback" /\ pc'[w] = "rollback")
                 \/ (pc[w] = "rollback" /\ pc'[w] # "rollback")
                 \/ (resp[w] = {} /\ resp'[w] # {} /\ resp'[w] # Ok200(analysis_result[w])))
              => journal' = journal
      ]_vars

\* a request was rolled back without ever flushing its row while the other
\* request, still under way, committed its own in the meantime
C11_Witness ==
    /\ Serving = ConcurrentWorkers
    /\ \E w, v \in Serving :
          /\ w # v
          /\ pc[w] = "done" /\ resp[w] = HTTPException(500, "db_failed")
          /\ \E e \in db_journal_entry[w] : e.journal_entry_id = {}
          /\ pc[v] \in {"refresh", "return", "teardown"}
          /\ \E e \in db_journal_entry[v] :
                \E r \in NewRows(w) : {r.journal_entry_id} = e.journal_entry_id

====
